---------------------------- MODULE Spec2Model ----------------------------
(***************************************************************************)
(* A model of the source bundler of src/src/lib.rs: Bundler::run walks the *)
(* entry file (binrs), the library root file (librs) and, recursively, the *)
(* module files (usemod), writing one output file.                         *)
(*                                                                         *)
(* Text is a sequence of one-character strings, a file is a sequence of    *)
(* raw lines as BufRead::read_line returns them (the line terminator       *)
(* included; only a file's last line may lack it).  The recursion is an    *)
(* explicit stack of frames; one step of the model is one iteration of the *)
(* while loop of the function on top of the stack, the calls it makes      *)
(* included up to the point where the callee starts its own loop.          *)
(*                                                                         *)
(* The file system is the environment's input.  It is revealed as the run  *)
(* opens and reads it and recorded in fs, so that a file walked twice      *)
(* reads the same both times.                                              *)
(***************************************************************************)
EXTENDS Naturals, Sequences, FiniteSets, TLC

(***************************************************************************)
(* Bounds of the input.                                                    *)
(***************************************************************************)
\* The files of one file system hold at most MaxLines lines in total.
MaxLines == 4

(***************************************************************************)
(* Text.                                                                   *)
(***************************************************************************)
NL == "\n"

\* char::is_whitespace (str::trim_end) and the regex class \s, on the
\* characters of the model.
IsWs(c) == c \in {" ", "\t", "\r", "\n"}

Max(S) == CHOOSE x \in S : \A y \in S : y <= x

\* str::trim_end: the longest prefix that does not end in whitespace.
TrimEnd(s) ==
  LET keep == {n \in 0..Len(s) : n = 0 \/ ~IsWs(s[n])}
  IN  SubSeq(s, 1, Max(keep))

\* String::pop: the string without its last character, whatever it is.
Pop(s) == IF s = <<>> THEN s ELSE SubSeq(s, 1, Len(s) - 1)

KwExtern == <<"e", "x", "t", "e", "r", "n">>
KwCrate  == <<"c", "r", "a", "t", "e">>
KwUse    == <<"u", "s", "e">>
KwPub    == <<"p", "u", "b">>
KwMod    == <<"m", "o", "d">>
KwWarn   == <<"#", "!", "[", "w", "a", "r", "n", "(">>
Tests    == <<"t", "e", "s", "t", "s">>
Star     == <<"*">>

(***************************************************************************)
(* The regular expressions.  A pattern is matched from a set of positions  *)
(* (the index of the next character to consume) to the set of positions it *)
(* can end at; source_line_regex turns "  " of a template into \s+, " "    *)
(* into \s*, anchors the pattern at both ends and lets an end-of-line      *)
(* comment follow it.                                                      *)
(***************************************************************************)
StartsAt(s, p, w) ==
  /\ p + Len(w) - 1 <= Len(s)
  /\ \A i \in 1..Len(w) : s[p + i - 1] = w[i]

\* a literal word
Lit(s, P, w) == {p + Len(w) : p \in {q \in P : StartsAt(s, q, w)}}

\* \s*
WsStar(s, P) ==
  UNION {{q \in p..Len(s) + 1 : \A i \in p..q - 1 : IsWs(s[i])} : p \in P}

\* \s+
WsPlus(s, P) ==
  UNION {{q \in p + 1..Len(s) + 1 : \A i \in p..q - 1 : IsWs(s[i])} : p \in P}

\* .* (. matches any character but the line feed)
DotStar(s, P) ==
  UNION {{q \in p..Len(s) + 1 : \A i \in p..q - 1 : s[i] # NL} : p \in P}

\* (?://.*)?$ : the end of the text, or a comment that runs to it
EolTail(s, P) ==
  \E p \in P :
    \/ p = Len(s) + 1
    \/ StartsAt(s, p, <<"/", "/">>) /\ \A i \in p + 2..Len(s) : s[i] # NL

\* The tail every statement template ends with: " ; " and the comment.
SemiTail(s, P) == EolTail(s, WsStar(s, Lit(s, WsStar(s, P), <<";">>)))

\* A greedy capture group (.* with least = 0, .+ with least = 1) that starts
\* at one of the positions S (after a greedy \s* or \s+, so the latest start
\* that lets the whole pattern match) and is followed by " ; ": the longest
\* text after which the rest of the pattern matches.  <<>> when the pattern
\* does not match, <<capture>> when it does.  H holds the pairs of a start
\* and an end between which the group can lie.
Longest(s, H) ==
  IF H = {} THEN <<>>
  ELSE LET b == CHOOSE p \in H :
                  \A q \in H : q[1] < p[1] \/ (q[1] = p[1] /\ q[2] <= p[2])
       IN  <<SubSeq(s, b[1], b[2] - 1)>>

Capture(s, S, least) ==
  LET ends(st) == {e \in DotStar(s, {st}) : e >= st + least /\ SemiTail(s, {e})}
      hits == UNION {{<<st, e>> : e \in ends(st)} : st \in S}
  IN  CHOOSE r \in {Longest(s, H) : H \in {hits}} : TRUE

\* source_line_regex(r" ")
comment_re(line) == EolTail(line, WsStar(line, {1}))

\* source_line_regex(r" #!\[warn\(.*")
warn_re(line) == EolTail(line, DotStar(line, Lit(line, WsStar(line, {1}), KwWarn)))

\* source_line_regex(" extern  crate  {} ; ") with the crate name filled in
extcrate_re(line, name) ==
  SemiTail(line,
    Lit(line, WsPlus(line, Lit(line, WsPlus(line,
      Lit(line, WsStar(line, {1}), KwExtern)), KwCrate)), name))

\* source_line_regex(" use  {} :: (.*) ; "): the captured path, if any
usecrate_re(line, name) ==
  Capture(line,
    WsStar(line, Lit(line, WsStar(line, Lit(line, WsPlus(line,
      Lit(line, WsStar(line, {1}), KwUse)), name)), <<":", ":">>)),
    0)

\* source_line_regex(r" (pub  )?mod  (?P<m>.+) ; "): the captured name, if any
mod_re(line) ==
  LET lead == WsStar(line, {1})
      vis  == lead \cup WsPlus(line, Lit(line, lead, KwPub))
  IN  Capture(line, WsPlus(line, Lit(line, vis, KwMod)), 1)

\* The pattern of minify_set, ^\s*(?P<contents>.*)\s*$, replaced by its
\* group: \s* takes all the leading whitespace and the greedy .* the longest
\* text after which only whitespace is left, which after it is all the rest
\* of the line; the text is unchanged when the pattern does not match.
minify_contents(line) ==
  LET st   == Max(WsStar(line, {1}))
      ends == {e \in DotStar(line, {st}) : Len(line) + 1 \in WsStar(line, {e})}
  IN  IF ends = {} THEN line ELSE SubSeq(line, st, Max(ends) - 1)

(***************************************************************************)
(* The input alphabet: the lines a file of each kind is made of, and the   *)
(* names the configuration calls are made with.                            *)
(***************************************************************************)
CrateNames   == {<<"l">>}
ExcludeNames == {<<"c">>}

BinPool ==
  { <<"/", "/", " ", "c">>,
    <<" ", "x", " ", " ", "y", " ">>,
    <<"e", "x", "t", "e", "r", "n", " ", "c", "r", "a", "t", "e", " ", "l", ";">>,
    <<"u", "s", "e", " ", "l", ":", ":", "*", ";">>,
    <<"u", "s", "e", " ", "l", ":", ":", "a", ";">> }

LibPool ==
  { <<"#", "!", "[", "w", "a", "r", "n", "(", "d", ")", "]">>,
    <<" ", "x", " ", " ", "y", " ">>,
    <<"p", "u", "b", " ", "m", "o", "d", " ", "a", ";">>,
    <<"m", "o", "d", " ", "t", "e", "s", "t", "s", ";">> }

ModPool ==
  { <<" ", " ">>,
    <<" ", "x", " ", " ", "y", " ">>,
    <<"u", "s", "e", " ", "l", ":", ":", "a", ";">>,
    <<"m", "o", "d", " ", "b", ";">>,
    <<"p", "u", "b", " ", "m", "o", "d", " ", "c", ";">>,
    <<"m", "o", "d", " ", "t", "e", "s", "t", "s", ";">> }

\* The lines a file may end with when its last line has no terminator.
BinLastPool == { <<" ", "x", " ", " ", "y", " ">> }
LibLastPool == { <<"}">>, <<"p", "u", "b", " ", "m", "o", "d", " ", "a", ";">> }
ModLastPool == { <<" ", "x", " ", " ", "y", " ">> }

(***************************************************************************)
(* The state.                                                              *)
(***************************************************************************)
VARIABLES
  fs,              \* the files opened so far: path -> [exists, lines, eof]
  out,             \* the lines written to the bundle file
  skip_use,        \* Bundler.skip_use
  skip_mod,        \* Bundler.skip_mod
  strip_comments,  \* Bundler.strip_comments
  minify_re,       \* Bundler.minify_re: "None" or "Some"
  crate,           \* Bundler._crate_name
  phase,           \* "config", "run", "done" (run returned) or "panic"
  stack            \* the frames of binrs, librs and usemod, innermost last

vars == <<fs, out, skip_use, skip_mod, strip_comments, minify_re, crate,
          phase, stack>>
config == <<skip_mod, strip_comments, minify_re, crate>>

\* Paths as the program is given them; module files are looked up beside the
\* library root file.
binrs_filename == <<"m", "a", "i", "n", ".", "r", "s">>
librs_filename == <<"l", "i", "b", ".", "r", "s">>

PoolOf(path) ==
  IF path = binrs_filename THEN BinPool
  ELSE IF path = librs_filename THEN LibPool
  ELSE ModPool

LastPoolOf(path) ==
  IF path = binrs_filename THEN BinLastPool
  ELSE IF path = librs_filename THEN LibLastPool
  ELSE ModLastPool

RECURSIVE SumLines(_, _)
SumLines(f, D) ==
  IF D = {} THEN 0
  ELSE LET p == CHOOSE q \in D : TRUE
       IN  Len(f[p].lines) + SumLines(f, D \ {p})

\* File::open: the outcomes the file system allows.  A file not opened
\* before exists or not; one opened before is as it was.
OpenChoices(f, path) ==
  IF path \in DOMAIN f THEN {f[path].exists} ELSE {TRUE, FALSE}

Opened(f, path, ex) ==
  IF path \in DOMAIN f THEN f
  ELSE (path :> [exists |-> ex, lines |-> <<>>, eof |-> ~ex]) @@ f

\* BufRead::read_line after pos lines of the file were read: the raw line,
\* terminator included, or <<>> at the end of the file (0 bytes read).  A
\* line not read before is any line of the file's alphabet while the file
\* system has room; a line without terminator is the file's last.
ReadLine(f, path, pos) ==
  LET file == f[path]
  IN  IF pos < Len(file.lines) THEN {file.lines[pos + 1]}
      ELSE IF file.eof \/ SumLines(f, DOMAIN f) >= MaxLines THEN {<<>>}
      ELSE {<<>>} \cup {t \o <<NL>> : t \in PoolOf(path)} \cup LastPoolOf(path)

Advance(f, path, pos, raw) ==
  IF pos < Len(f[path].lines) THEN f
  ELSE IF raw = <<>> THEN [f EXCEPT ![path].eof = TRUE]
  ELSE [f EXCEPT ![path].lines = Append(@, raw),
                 ![path].eof = (raw[Len(raw)] # NL)]

Top == stack[Len(stack)]
Return(stk) == SubSeq(stk, 1, Len(stk) - 1)

\* The reader of the walk on top of the stack is past the line it returned.
\* (Next_line_stuck, which leaves the reader where it was, is a faulty
\* variant: C17 must fail with it.)
Next_line_stuck(stk) == stk
Next_line(stk) == [stk EXCEPT ![Len(stk)].pos = @ + 1]

Frame(fn, file, mod_name, mod_path, mod_import) ==
  [fn |-> fn, file |-> file, pos |-> 0,
   mod_name |-> mod_name, mod_path |-> mod_path, mod_import |-> mod_import]

\* The sets new_with_librs seeds.  (new_skip_use_unseeded is a faulty
\* variant: C10 must fail with it.)
new_skip_use_unseeded == {}
new_skip_use == {Star}
new_skip_mod == {Tests}

Init ==
  /\ fs = <<>>
  /\ out = <<>>
  /\ skip_use = new_skip_use
  /\ skip_mod = new_skip_mod
  /\ strip_comments = TRUE
  /\ minify_re = "None"
  /\ crate = <<>>
  /\ phase = "config"
  /\ stack = <<>>

(***************************************************************************)
(* The configuration calls.                                                *)
(***************************************************************************)
exclude_mod(mod_name) ==
  /\ phase = "config"
  /\ skip_mod' = skip_mod \cup {mod_name}
  /\ UNCHANGED <<fs, out, skip_use, strip_comments, minify_re, crate, phase, stack>>

minify_set(enable) ==
  /\ phase = "config"
  /\ minify_re' = IF enable THEN "Some" ELSE "None"
  /\ UNCHANGED <<fs, out, skip_use, skip_mod, strip_comments, crate, phase, stack>>

strip_comments_set(enable) ==
  /\ phase = "config"
  /\ strip_comments' = enable
  /\ UNCHANGED <<fs, out, skip_use, skip_mod, minify_re, crate, phase, stack>>

crate_name(name) ==
  /\ phase = "config"
  /\ crate' = name
  /\ UNCHANGED <<fs, out, skip_use, skip_mod, strip_comments, minify_re, phase, stack>>

(***************************************************************************)
(* The output.                                                             *)
(***************************************************************************)
write_line(o, line) ==
  Append(o, IF minify_re = "Some" THEN minify_contents(line) ELSE line)

\* The import binrs writes for a use-declaration.  (UseLine_qualified, which
\* keeps the crate name, is a faulty variant: C11 must fail with it.)
UseLine_qualified(moduse) ==
  <<"u", "s", "e", " ">> \o crate \o <<":", ":">> \o moduse \o <<";">>
UseLine(moduse)   == <<"u", "s", "e", " ">> \o moduse \o <<";">>
OpenLine(mod_name) ==
  <<"p", "u", "b", " ", "m", "o", "d", " ">> \o mod_name \o <<" ", "{">>
CloseLine == <<"}">>

\* The output usemod ends with.  (usemod_end_unclosed, which writes no
\* closing wrapper, is a faulty variant: C16 must fail with it.)
usemod_end_unclosed(o) == o
usemod_end(o) == Append(o, CloseLine)

\* The test every walk makes first on a line.
Stripped(line) == strip_comments /\ (comment_re(line) \/ warn_re(line))


(***************************************************************************)
(* The run.                                                                *)
(***************************************************************************)
\* The two files usemod tries for a module, in the order it tries them.
\* (mod_filenames0_dir_first, which tries them in the other order, is a
\* faulty variant: C14 must fail with it.)
mod_filenames0_dir_first(mod_path) ==
  << mod_path \o <<"/", "m", "o", "d", ".", "r", "s">>,
     mod_path \o <<".", "r", "s">> >>

mod_filenames0(mod_path) ==
  << mod_path \o <<".", "r", "s">>,
     mod_path \o <<"/", "m", "o", "d", ".", "r", "s">> >>

\* The assertion of usemod that fails when neither file opens: the run
\* panics before anything is written for the module.  (The variant that skips
\* the module and goes on is faulty: C6 must fail with it.)
usemod_not_found_skipped(f, stk, o) ==
  /\ fs' = f
  /\ phase' = phase
  /\ stack' = stk
  /\ out' = o
  /\ skip_use' = skip_use

usemod_not_found(f, stk, o) ==
  /\ fs' = f
  /\ phase' = "panic"
  /\ stack' = stk
  /\ out' = o
  /\ skip_use' = skip_use

\* usemod up to its loop: it opens the first of the two files that opens and
\* panics when neither does; then it writes the open wrapper and registers
\* the import path.  f, stk and o are the files, the frames and the output
\* as the caller leaves them.
usemod_enter(f, stk, o, mod_name, mod_path, mod_import) ==
  LET names   == mod_filenames0(mod_path)
      Entered(g, file) ==
        /\ fs' = g
        /\ out' = Append(o, OpenLine(mod_name))
        /\ skip_use' = skip_use \cup {mod_import}
        /\ stack' = Append(stk, Frame("usemod", file, mod_name, mod_path, mod_import))
        /\ phase' = phase
  IN  \E e1 \in OpenChoices(f, names[1]) :
        LET f1 == Opened(f, names[1], e1)
        IN  IF e1 THEN Entered(f1, names[1])
            ELSE \E e2 \in OpenChoices(f1, names[2]) :
                   LET f2 == Opened(f1, names[2], e2)
                   IN  IF e2 THEN Entered(f2, names[2])
                       ELSE usemod_not_found(f2, stk, o)

\* librs up to its loop: it opens the library root file or panics.
librs_enter(f, stk) ==
  \E e \in OpenChoices(f, librs_filename) :
    /\ fs' = Opened(f, librs_filename, e)
    /\ IF e
       THEN /\ stack' = Append(stk, Frame("librs", librs_filename, <<>>, <<>>, <<>>))
            /\ phase' = phase
       ELSE /\ stack' = stk
            /\ phase' = "panic"

\* The tests that decide what a recognised declaration does.  (The variants
\* that always pass are faulty: C3 and C4 must fail with them.)
use_emitted_always(moduse) == TRUE
use_emitted(moduse) == moduse \notin skip_use
mod_expanded(modname) == modname \notin skip_mod
submod_expanded_always(submodname) == TRUE
submod_expanded(submodname) == submodname # Tests

\* The import path usemod gives a nested module.  (submodimport_bare, which
\* drops the parent's path, is a faulty variant: C15 must fail with it.)
submodimport_bare(mod_import, submodname) == submodname
submodimport(mod_import, submodname) == mod_import \o <<":", ":">> \o submodname

\* The text each walk classifies and writes, from the raw line it read.
\* (usemod_line_popped, which does as librs does, is a faulty variant: C7
\* must fail with it.)
binrs_line(raw)  == TrimEnd(raw)
librs_line(raw)  == Pop(raw)
usemod_line_popped(raw) == Pop(raw)
usemod_line(raw) == TrimEnd(raw)

\* run: it creates the bundle file, or panics, and calls binrs, which opens
\* the entry file; run panics when binrs returns an error.
run ==
  /\ phase = "config"
  /\ out' = <<>>
  /\ \/ /\ phase' = "panic"
        /\ UNCHANGED <<fs, stack>>
     \/ \E e \in OpenChoices(fs, binrs_filename) :
          /\ fs' = Opened(fs, binrs_filename, e)
          /\ IF e
             THEN /\ stack' = <<Frame("binrs", binrs_filename, <<>>, <<>>, <<>>)>>
                  /\ phase' = "run"
             ELSE /\ stack' = stack
                  /\ phase' = "panic"
  /\ UNCHANGED <<skip_use, config>>

\* One iteration of the loop of binrs, or its return.
binrs ==
  /\ phase = "run"
  /\ Top.fn = "binrs"
  /\ \E raw \in ReadLine(fs, Top.file, Top.pos) :
       LET f1   == Advance(fs, Top.file, Top.pos, raw)
           stk1 == Next_line(stack)
       IN  \E line \in {binrs_line(raw)} : \E cap \in {usecrate_re(line, crate)} :
           IF raw = <<>>
           THEN /\ fs' = f1
                /\ stack' = Return(stack)
                /\ phase' = "done"
                /\ UNCHANGED <<out, skip_use>>
           ELSE IF Stripped(line)
           THEN /\ fs' = f1
                /\ stack' = stk1
                /\ UNCHANGED <<out, skip_use, phase>>
           ELSE IF extcrate_re(line, crate)
           THEN /\ librs_enter(f1, stk1)
                /\ UNCHANGED <<out, skip_use>>
           ELSE IF cap # <<>>
           THEN /\ fs' = f1
                /\ stack' = stk1
                /\ out' = IF use_emitted(cap[1]) THEN Append(out, UseLine(cap[1]))
                          ELSE out
                /\ UNCHANGED <<skip_use, phase>>
           ELSE /\ fs' = f1
                /\ stack' = stk1
                /\ out' = write_line(out, line)
                /\ UNCHANGED <<skip_use, phase>>
  /\ UNCHANGED config

\* One iteration of the loop of librs, or its return.
librs ==
  /\ phase = "run"
  /\ Top.fn = "librs"
  /\ \E raw \in ReadLine(fs, Top.file, Top.pos) :
       LET f1   == Advance(fs, Top.file, Top.pos, raw)
           stk1 == Next_line(stack)
       IN  \E line \in {librs_line(raw)} : \E cap \in {mod_re(line)} :
           IF raw = <<>>
           THEN /\ fs' = f1
                /\ stack' = Return(stack)
                /\ UNCHANGED <<out, skip_use, phase>>
           ELSE IF Stripped(line)
           THEN /\ fs' = f1
                /\ stack' = stk1
                /\ UNCHANGED <<out, skip_use, phase>>
           ELSE IF cap # <<>>
           THEN IF mod_expanded(cap[1])
                THEN usemod_enter(f1, stk1, out, cap[1], cap[1], cap[1])
                ELSE /\ fs' = f1
                     /\ stack' = stk1
                     /\ UNCHANGED <<out, skip_use, phase>>
           ELSE /\ fs' = f1
                /\ stack' = stk1
                /\ out' = write_line(out, line)
                /\ UNCHANGED <<skip_use, phase>>
  /\ UNCHANGED config

\* One iteration of the loop of usemod, or its end: the closing wrapper and
\* the return.
usemod ==
  /\ phase = "run"
  /\ Top.fn = "usemod"
  /\ \E raw \in ReadLine(fs, Top.file, Top.pos) :
       LET f1   == Advance(fs, Top.file, Top.pos, raw)
           stk1 == Next_line(stack)
       IN  \E line \in {usemod_line(raw)} : \E cap \in {mod_re(line)} :
           IF raw = <<>>
           THEN /\ fs' = f1
                /\ stack' = Return(stack)
                /\ out' = usemod_end(out)
                /\ UNCHANGED <<skip_use, phase>>
           ELSE IF Stripped(line)
           THEN /\ fs' = f1
                /\ stack' = stk1
                /\ UNCHANGED <<out, skip_use, phase>>
           ELSE IF cap # <<>>
           THEN IF submod_expanded(cap[1])
                THEN usemod_enter(f1, stk1, out, cap[1],
                                  Top.mod_path \o <<"/">> \o cap[1],
                                  submodimport(Top.mod_import, cap[1]))
                ELSE /\ fs' = f1
                     /\ stack' = stk1
                     /\ UNCHANGED <<out, skip_use, phase>>
           ELSE /\ fs' = f1
                /\ stack' = stk1
                /\ out' = write_line(out, line)
                /\ UNCHANGED <<skip_use, phase>>
  /\ UNCHANGED config

Next ==
  \/ \E m \in ExcludeNames : exclude_mod(m)
  \/ \E e \in BOOLEAN : minify_set(e)
  \/ \E e \in BOOLEAN : strip_comments_set(e)
  \/ \E n \in CrateNames : crate_name(n)
  \/ run
  \/ binrs
  \/ librs
  \/ usemod

Spec == Init /\ [][Next]_vars

\* run does not return to its caller before binrs did, and a walk goes on
\* until it returns or panics: the program is sequential and nothing but the
\* end of its file or a panic stops a loop.
FairSpec == Spec /\ WF_vars(binrs \/ librs \/ usemod)


(***************************************************************************)
(* What the claims speak of.                                               *)
(***************************************************************************)
Range(s) == {s[i] : i \in 1..Len(s)}

\* A step in which the walk fn reads a line (not the end of its file).
ReadStep(fn) ==
  /\ phase = "run"
  /\ Top.fn = fn
  /\ stack' # stack
  /\ Len(fs'[Top.file].lines) > Top.pos

\* The line that step reads, as the file holds it, and as the line
\* classifier is given it: right-trimmed, without terminator.
ReadRaw  == fs'[Top.file].lines[Top.pos + 1]
ReadText == TrimEnd(ReadRaw)

\* The line the walk on top of the stack read last (it read one).
LastText == TrimEnd(fs[Top.file].lines[Top.pos])

\* The import paths of the modules whose expansion took place.
Inlined == skip_use \ {Star}

(***************************************************************************)
(* C1.  After a run that completes normally the output holds no import of  *)
(* a module that was inlined during the run: no line `use P;` and no       *)
(* library-use-declaration capturing P, for any inlined import path P,     *)
(* wherever the declaration stood in the entry file.                       *)
(* Violated: a use-declaration read before the library-extern-declaration  *)
(* is rewritten and emitted, and the module is inlined afterwards.         *)
(***************************************************************************)
C1_NoImportOfInlinedModule ==
  phase = "done" =>
    \A P \in Inlined : \A i \in 1..Len(out) :
      /\ out[i] # UseLine(P)
      /\ usecrate_re(out[i], crate) # <<P>>

C10_WildcardElided ==
  [][ ReadStep("binrs") /\ out' # out => usecrate_re(ReadText, crate) # <<Star>>
    ]_vars

\* A wildcard use-declaration was read after the library was expanded, with
\* nothing but `tests` in the exclusion list, and another before it.
C10_Witness ==
  /\ phase = "run"
  /\ Top.fn = "binrs"
  /\ Top.pos >= 3
  /\ skip_mod = {Tests}
  /\ usecrate_re(LastText, crate) = <<Star>>
  /\ usecrate_re(TrimEnd(fs[Top.file].lines[1]), crate) = <<Star>>
  /\ extcrate_re(TrimEnd(fs[Top.file].lines[2]), crate)
  /\ UseLine(Star) \notin Range(out)


(***************************************************************************)
(* More of what the claims speak of.                                       *)
(***************************************************************************)
Walks == {"binrs", "librs", "usemod"}

EndsWith(s, w) == Len(s) >= Len(w) /\ SubSeq(s, Len(s) - Len(w) + 1, Len(s)) = w

\* A raw line without its terminator.
Chomp(raw) == IF raw # <<>> /\ raw[Len(raw)] = NL THEN Pop(raw) ELSE raw

\* A text without its leading whitespace.
TrimStart(s) ==
  LET drop == {n \in 0..Len(s) : \A i \in 1..n : IsWs(s[i])}
  IN  SubSeq(s, Max(drop) + 1, Len(s))

\* The line classifier on a right-trimmed line: a line no walk of kind fn
\* takes for a declaration and comment-stripping does not drop.
Plain(fn, text) ==
  /\ ~Stripped(text)
  /\ IF fn = "binrs"
     THEN ~extcrate_re(text, crate) /\ usecrate_re(text, crate) = <<>>
     ELSE mod_re(text) = <<>>

ModFiles == DOMAIN fs \ {binrs_filename, librs_filename}

\* A path or an import path whose last component is `tests`.
NamesTests(p, sep) == p = Tests \/ EndsWith(p, sep \o Tests)

(***************************************************************************)
(* C4.  A module-declaration naming `tests` is never expanded, at the      *)
(* library root or nested: no open wrapper for it is written, no walk of   *)
(* it is on the stack, neither of its two files is ever opened, and no     *)
(* import path ending in it enters skip_use, whatever exclude_mod added.   *)
(***************************************************************************)
C4_TestsNeverExpanded ==
  /\ OpenLine(Tests) \notin Range(out)
  /\ \A i \in 1..Len(stack) : stack[i].mod_name # Tests
  /\ \A path \in ModFiles :
       \A p \in {SubSeq(path, 1, n) : n \in 0..Len(path)} :
         path \in Range(mod_filenames0(p)) => ~NamesTests(p, <<"/">>)
  /\ \A q \in skip_use : ~NamesTests(q, <<":", ":">>)

\* A run that completed with a name added by exclude_mod, after reading a
\* declaration of `tests` in the library root file and one in a module file.
C4_Witness ==
  /\ phase = "done"
  /\ skip_mod # {Tests}
  /\ librs_filename \in DOMAIN fs
  /\ \E i \in 1..Len(fs[librs_filename].lines) :
       mod_re(Pop(fs[librs_filename].lines[i])) = <<Tests>>
  /\ \E path \in ModFiles : \E i \in 1..Len(fs[path].lines) :
       mod_re(TrimEnd(fs[path].lines[i])) = <<Tests>>

(***************************************************************************)
(* C5.  A module whose name exclude_mod put in the exclusion list is never *)
(* inlined, at whatever depth it is declared: no open wrapper naming it is *)
(* written and no walk of it is ever on the stack.                         *)
(* Violated: usemod tests a nested declaration against the literal `tests` *)
(* alone, so an excluded name declared in a module file is expanded.       *)
(***************************************************************************)
C5_ExcludedNeverInlined ==
  \A m \in skip_mod :
    /\ OpenLine(m) \notin Range(out)
    /\ \A i \in 1..Len(stack) : stack[i].mod_name # m

(***************************************************************************)
(* C6.  When the entry file, the library root file or both files of a      *)
(* module cannot be opened, the run panics in that very step, writing      *)
(* nothing more (no open wrapper, no skip_use entry for the module), and   *)
(* a run that panicked never completes and never writes again.             *)
(***************************************************************************)
Unresolved(f) ==
  \/ \E path \in DOMAIN f \cap {binrs_filename, librs_filename} : ~f[path].exists
  \/ \E path \in DOMAIN f \ {binrs_filename, librs_filename} :
       \E p \in {SubSeq(path, 1, n) : n \in 0..Len(path)} :
         /\ path = mod_filenames0(p)[1]
         /\ mod_filenames0(p)[2] \in DOMAIN f
         /\ ~f[path].exists
         /\ ~f[mod_filenames0(p)[2]].exists

C6_FatalOnMissingFile ==
  [][ /\ Unresolved(fs') =>
           phase' = "panic" /\ out' = out /\ skip_use' = skip_use
      /\ phase = "panic" => phase' = "panic" /\ out' = out
    ]_vars

\* A run that panicked on a nested module neither file of which opens, its
\* partial output left behind.
C6_Witness ==
  /\ phase = "panic"
  /\ Len(stack) >= 3
  /\ Top.fn = "usemod"
  /\ Unresolved(fs)
  /\ OpenLine(Top.mod_name) \in Range(out)

(***************************************************************************)
(* C7, as amended.  With comment-stripping and minification both disabled, *)
(* the expansion of a module file that holds only plain lines writes       *)
(* exactly: the open wrapper naming the module, every line of the file in  *)
(* order with its trailing whitespace removed, the closing wrapper.        *)
(***************************************************************************)
\* The step in which usemod reaches the end of its file and returns.
ModReturn == phase = "run" /\ Top.fn = "usemod" /\ stack' = Return(stack)

\* Lines the classifier takes for plain ones: not blank, no comment, no
\* lint-suppression, no module-declaration.
PlainLinesOnly(lines) ==
  \A i \in 1..Len(lines) :
    LET text == TrimEnd(lines[i])
    IN  ~comment_re(text) /\ ~warn_re(text) /\ mod_re(text) = <<>>

\* The last n lines of the output.
LastLines(o, n) == SubSeq(o, Len(o) - n + 1, Len(o))

C7_LeafRoundTripTrimmed ==
  [][ ( /\ ModReturn
        /\ ~strip_comments
        /\ minify_re = "None"
        /\ PlainLinesOnly(fs'[Top.file].lines) ) =>
      LET lines == fs'[Top.file].lines
      IN  /\ Len(out') >= Len(lines) + 2
          /\ LastLines(out', Len(lines) + 2) =
               <<OpenLine(Top.mod_name)>>
               \o [i \in 1..Len(lines) |-> TrimEnd(lines[i])]
               \o <<CloseLine>>
    ]_vars

\* C7 as stated: with comment-stripping disabled, every line of the file is
\* written verbatim between the two wrappers.
\* Violated: usemod trims the end of every line, and write_line minifies.
C7_LeafRoundTripVerbatim ==
  [][ ( /\ ModReturn
        /\ ~strip_comments
        /\ PlainLinesOnly(fs'[Top.file].lines) ) =>
      LET lines == fs'[Top.file].lines
      IN  /\ Len(out') >= Len(lines) + 2
          /\ LastLines(out', Len(lines) + 2) =
               <<OpenLine(Top.mod_name)>>
               \o [i \in 1..Len(lines) |-> Chomp(lines[i])]
               \o <<CloseLine>>
    ]_vars

\* A completed run, neither stripping nor minifying, that expanded a module
\* file of two plain lines, one ending in whitespace.
C7_Witness ==
  /\ phase = "done"
  /\ ~strip_comments
  /\ minify_re = "None"
  /\ \E path \in ModFiles :
       /\ fs[path].exists
       /\ Len(fs[path].lines) >= 2
       /\ PlainLinesOnly(fs[path].lines)
       /\ \E i \in 1..Len(fs[path].lines) :
            TrimEnd(fs[path].lines[i]) # Chomp(fs[path].lines[i])

(***************************************************************************)
(* C8.  With minification enabled, every line of the entry file, the       *)
(* library root file or a module file that is written as plain content is  *)
(* written with its leading and its trailing whitespace stripped and its   *)
(* inner spacing kept.                                                     *)
(* Violated: librs removes only the last character of the line it read,    *)
(* and the pattern of minify_set leaves trailing whitespace in its group.  *)
(***************************************************************************)
C8_MinifiedPlainLines ==
  [][ \A fn \in Walks :
        (ReadStep(fn) /\ minify_re = "Some" /\ Plain(fn, ReadText) /\ out' # out) =>
          out' = Append(out, TrimStart(ReadText))
    ]_vars

(***************************************************************************)
(* C9.  With comment-stripping enabled, a line of any of the three kinds   *)
(* of file that has the blank-or-comment shape or the lint-suppression     *)
(* shape writes nothing, and every plain line writes a line.               *)
(* Violated: librs removes the last character of a last line that has no   *)
(* terminator, so a one-character plain line becomes blank and is dropped. *)
(***************************************************************************)
C9_CommentElision ==
  [][ \A fn \in Walks :
        (ReadStep(fn) /\ strip_comments) =>
          /\ (comment_re(ReadText) \/ warn_re(ReadText)) => out' = out
          /\ Plain(fn, ReadText) => Len(out') = Len(out) + 1
    ]_vars


(***************************************************************************)
(* C2.  After a run that completes normally, the module wrapper lines of   *)
(* the output are those of the depth-first, declaration-order traversal of *)
(* the module tree the files declare: for every declared module its open   *)
(* wrapper, then the wrappers of its submodules in the order of their      *)
(* declarations, each with all its descendants, then its closing wrapper.  *)
(* Violated only through the fault of C13: a module-declaration that is    *)
(* the last line of the library root file and has no terminator loses its  *)
(* `;` in librs and is written as text, so its module is never expanded.   *)
(***************************************************************************)
IsWrapper(l) ==
  \/ l = CloseLine
  \/ StartsAt(l, 1, <<"p", "u", "b", " ", "m", "o", "d", " ">>) /\ EndsWith(l, <<" ", "{">>)

\* The file a module's lines come from: the first of its two files that
\* exists; <<>> when neither was found in the files opened.
Resolved(f, mod_path) ==
  LET names == mod_filenames0(mod_path)
      found == {k \in 1..2 : names[k] \in DOMAIN f /\ f[names[k]].exists}
  IN  IF found = {} THEN <<>> ELSE <<names[CHOOSE k \in found : \A j \in found : k <= j]>>

\* The wrappers of the modules declared from line i on of a file: of the
\* library root file (mod_path = <<>>; names in skip_mod are left out) or of
\* the file of the module at mod_path (`tests` is left out).
RECURSIVE Wrappers(_, _, _, _)
Wrappers(f, file, mod_path, i) ==
  IF i > Len(f[file].lines) THEN <<>>
  ELSE LET text == TrimEnd(f[file].lines[i])
           cap  == mod_re(text)
           sub  == IF mod_path = <<>> THEN cap[1] ELSE mod_path \o <<"/">> \o cap[1]
           in   == /\ ~Stripped(text)
                   /\ cap # <<>>
                   /\ IF mod_path = <<>> THEN cap[1] \notin skip_mod ELSE cap[1] # Tests
           src  == Resolved(f, sub)
       IN  (IF in
            THEN <<OpenLine(cap[1])>>
                 \o (IF src = <<>> THEN <<>> ELSE Wrappers(f, src[1], sub, 1))
                 \o <<CloseLine>>
            ELSE <<>>)
           \o Wrappers(f, file, mod_path, i + 1)

\* The wrappers of a whole run: those of the library, once for every
\* library-extern-declaration of the entry file.
RECURSIVE EntryWrappers(_, _)
EntryWrappers(f, i) ==
  IF i > Len(f[binrs_filename].lines) THEN <<>>
  ELSE LET text == TrimEnd(f[binrs_filename].lines[i])
       IN  (IF ~Stripped(text) /\ extcrate_re(text, crate)
            THEN Wrappers(f, librs_filename, <<>>, 1)
            ELSE <<>>)
           \o EntryWrappers(f, i + 1)

C2_DepthFirstOrder ==
  phase = "done" => SelectSeq(out, IsWrapper) = EntryWrappers(fs, 1)


(***************************************************************************)
(* C11.  A line of the entry file that is a library-use-declaration with   *)
(* captured path P writes nothing when P is in skip_use as the line is     *)
(* read, and otherwise writes exactly one line, the bare import `use P;`   *)
(* without the library name; the line itself is never written.             *)
(***************************************************************************)
\* The bare import of a path.
BareImport(P) == KwUse \o <<" ">> \o P \o <<";">>

C11_UseRewritten ==
  [][ ReadStep("binrs") =>
        \A text \in {ReadText} : \A cap \in {usecrate_re(text, crate)} :
          cap # <<>> =>
            /\ IF cap[1] \in skip_use THEN out' = out
               ELSE out' = Append(out, BareImport(cap[1]))
            /\ out' # Append(out, text)
            /\ out' # Append(out, Chomp(ReadRaw))
    ]_vars

\* The entry file's walk has just read a use-declaration whose path is not in
\* skip_use; the bare import is the last line written and the line as it was
\* read is not in the output.
C11_Witness ==
  /\ phase = "run"
  /\ Top.fn = "binrs"
  /\ Top.pos >= 1
  /\ LET cap == usecrate_re(LastText, crate)
     IN  /\ cap # <<>>
         /\ cap[1] \notin skip_use
         /\ out # <<>>
         /\ out[Len(out)] = BareImport(cap[1])
         /\ LastText \notin Range(out)

(***************************************************************************)
(* C12.  The import path of a module is in skip_use before a line of the   *)
(* module's file is read (it is there while a walk of the module is on the *)
(* stack), and a line of the module's own file that is a                   *)
(* library-use-declaration capturing that import path writes nothing.      *)
(* Violated: the path is registered in time, but usemod looks for          *)
(* module-declarations only and never consults skip_use, so the            *)
(* use-declaration is written as a plain line.                             *)
(***************************************************************************)
C12_SelfImportElided ==
  [][ /\ \A i \in 1..Len(stack') :
           stack'[i].fn = "usemod" => stack'[i].mod_import \in skip_use'
      /\ ReadStep("usemod") =>
           \A cap \in {usecrate_re(ReadText, crate)} :
             cap = <<Top.mod_import>> => out' = out
    ]_vars

(***************************************************************************)
(* C13.  A line of the library root file that is a module-declaration      *)
(* capturing M, at any position and whether or not the file's last line    *)
(* has a terminator, writes nothing when M is in skip_mod and otherwise    *)
(* calls usemod(M, M, M), which opens the module or panics; the line is    *)
(* never written as text.                                                  *)
(* Violated: librs removes the last character of the line it read, which   *)
(* is the `;` of a last line without terminator; the line then matches no  *)
(* pattern and is written as a plain line.                                 *)
(***************************************************************************)
C13_RootModuleDeclaration ==
  [][ ReadStep("librs") =>
        \A cap \in {mod_re(ReadText)} :
          cap # <<>> =>
            IF cap[1] \in skip_mod
            THEN out' = out /\ stack' = Next_line(stack)
            ELSE \/ phase' = "panic" /\ out' = out
                 \/ /\ out' = Append(out, OpenLine(cap[1]))
                    /\ Len(stack') = Len(stack) + 1
                    /\ stack'[Len(stack')].fn = "usemod"
                    /\ stack'[Len(stack')].mod_name = cap[1]
                    /\ stack'[Len(stack')].mod_path = cap[1]
                    /\ stack'[Len(stack')].mod_import = cap[1]
    ]_vars

(***************************************************************************)
(* C14.  usemod finds the file of a module at path p by trying the flat    *)
(* file p.rs first and the directory file p/mod.rs second.  When the flat  *)
(* file opens it is the one walked, whether the directory file exists or   *)
(* not (it is not even tried); when only the directory file opens it is    *)
(* the one walked; the run panics only when neither opens.  The path of a  *)
(* module declared at the library root is its name, that of a module S     *)
(* declared in the file of the module at p is p/S.                         *)
(***************************************************************************)
FlatFile(mod_path) == mod_path \o <<".", "r", "s">>
DirFile(mod_path)  == mod_path \o <<"/", "m", "o", "d", ".", "r", "s">>

\* A step of a walk of the library that calls usemod.
ModCall ==
  /\ phase = "run"
  /\ Top.fn \in {"librs", "usemod"}
  /\ \/ Len(stack') = Len(stack) + 1
     \/ phase' = "panic"

C14_FlatFileFirst ==
  [][ ModCall =>
        IF phase' = "panic"
        THEN \E path \in DOMAIN fs' \ DOMAIN fs :
               \E q \in {SubSeq(path, 1, n) : n \in 0..Len(path)} :
                 /\ path = DirFile(q)
                 /\ FlatFile(q) \in DOMAIN fs'
                 /\ ~fs'[FlatFile(q)].exists
                 /\ ~fs'[path].exists
        ELSE LET fr == stack'[Len(stack')]
                 q  == fr.mod_path
             IN  /\ q = IF Top.fn = "librs" THEN fr.mod_name
                        ELSE Top.mod_path \o <<"/">> \o fr.mod_name
                 /\ FlatFile(q) \in DOMAIN fs'
                 /\ IF fs'[FlatFile(q)].exists
                    THEN /\ fr.file = FlatFile(q)
                         /\ DirFile(q) \in DOMAIN fs' => DirFile(q) \in DOMAIN fs
                    ELSE /\ DirFile(q) \in DOMAIN fs'
                         /\ fs'[DirFile(q)].exists
                         /\ fr.file = DirFile(q)
    ]_vars

\* A module found in its flat file is being walked, and inside it a nested
\* module found in its directory file, the flat file of which does not exist.
C14_Witness ==
  /\ phase = "run"
  /\ Len(stack) >= 4
  /\ stack[3].fn = "usemod"
  /\ stack[3].file = FlatFile(stack[3].mod_name)
  /\ Top.fn = "usemod"
  /\ Top.mod_path = stack[3].mod_path \o <<"/">> \o Top.mod_name
  /\ Top.file = DirFile(Top.mod_path)
  /\ FlatFile(Top.mod_path) \in DOMAIN fs
  /\ ~fs[FlatFile(Top.mod_path)].exists
  /\ Top.pos >= 1

(***************************************************************************)
(* C15.  skip_use is {`*`} when the bundler is made, and every step adds   *)
(* to it exactly the import path of the module whose expansion begins in   *)
(* that step, if one does, and removes nothing: at every step skip_use is  *)
(* {`*`} with the import paths of the modules expanded so far.  The import *)
(* path of a module is the names of the modules being expanded around it,  *)
(* outermost first, and its own, joined by `::`.                           *)
(***************************************************************************)
\* The import path of the module of frame i, from the names of the modules
\* the frames below it are walking.
RECURSIVE ImportPath(_, _)
ImportPath(stk, i) ==
  IF i = 0 \/ stk[i].fn # "usemod" THEN <<>>
  ELSE LET outer == ImportPath(stk, i - 1)
       IN  IF outer = <<>> THEN stk[i].mod_name
           ELSE outer \o <<":", ":">> \o stk[i].mod_name

\* The import paths of the modules whose expansion begins in a step.
Begun ==
  IF /\ phase = "run"
     /\ Len(stack') = Len(stack) + 1
     /\ stack'[Len(stack')].fn = "usemod"
  THEN {ImportPath(stack', Len(stack'))}
  ELSE {}

C15_SkipUseIsExpandedModules ==
  /\ skip_use = {Star}
  /\ [][skip_use' = skip_use \cup Begun]_vars

\* A completed run that expanded a module and a module nested in it.
C15_Witness ==
  /\ phase = "done"
  /\ \E P \in skip_use : \E Q \in skip_use :
       /\ P # Star
       /\ \E n \in 1..Len(Q) : Q = P \o <<":", ":">> \o SubSeq(Q, Len(Q) - n + 1, Len(Q))
       /\ OpenLine(P) \in Range(out)

(***************************************************************************)
(* C16.  The module wrappers of the output are properly nested.  At every  *)
(* step the open wrappers written outnumber the closing wrappers written   *)
(* by the number of walks of a module on the stack (the depth of the       *)
(* recursion of usemod), so the two numbers are equal after a run that     *)
(* completes; and a closing wrapper is written by the walk of a module as  *)
(* it returns, after it read the file to its end, which is after all the   *)
(* lines of the module and, the walks of its submodules having returned,   *)
(* of its descendants.                                                     *)
(***************************************************************************)
IsOpenWrapper(l) == IsWrapper(l) /\ l # <<"}">>

Opens(o)  == Cardinality({i \in 1..Len(o) : IsOpenWrapper(o[i])})
Closes(o) == Cardinality({i \in 1..Len(o) : o[i] = <<"}">>})
Depth(stk) == Cardinality({i \in 1..Len(stk) : stk[i].fn = "usemod"})

Balanced(o, stk) == Opens(o) = Closes(o) + Depth(stk)

C16_WrappersNested ==
  /\ Balanced(out, stack)
  /\ [][ /\ Balanced(out', stack')
         /\ phase' = "done" => Opens(out') = Closes(out')
         /\ Closes(out') # Closes(out) =>
              /\ out' = Append(out, <<"}">>)
              /\ Top.fn = "usemod"
              /\ stack' = Return(stack)
              /\ Top.pos = Len(fs'[Top.file].lines)
              /\ fs'[Top.file].eof
         /\ Depth(stack') < Depth(stack) => Closes(out') = Closes(out) + 1
     ]_vars

\* A completed run whose output holds a module wrapped in a module: two open
\* wrappers, a line of the inner module, two closing wrappers.
C16_Witness ==
  /\ phase = "done"
  /\ \E i \in 1..Len(out) :
       /\ i + 4 <= Len(out)
       /\ IsOpenWrapper(out[i])
       /\ IsOpenWrapper(out[i + 1])
       /\ ~IsWrapper(out[i + 2])
       /\ out[i + 3] = <<"}">>
       /\ out[i + 4] = <<"}">>

(***************************************************************************)
(* C17.  A run over finite files ends: once started it completes or        *)
(* panics.  A walk never reads a line of its file twice: every step of a   *)
(* walk that does not return moves its reader one line on, and the readers *)
(* of the walks below it stay where they are.  When the run has completed, *)
(* every file it opened was read to its end.                               *)
(***************************************************************************)
Ended == phase \in {"done", "panic"}

\* Every step of a running walk either returns or moves on by one line.
SinglePass ==
  phase = "run" /\ stack' # stack =>
    /\ \A i \in 1..Len(stack) - 1 : i <= Len(stack') /\ stack'[i] = stack[i]
    /\ Len(stack') >= Len(stack) =>
         /\ stack'[Len(stack)].file = Top.file
         /\ stack'[Len(stack)].pos = Top.pos + 1
         /\ Len(fs'[Top.file].lines) >= Top.pos + 1

AllConsumed ==
  \A path \in DOMAIN fs : fs[path].exists => fs[path].eof

C17_RunEnds ==
  /\ [](phase = "done" => AllConsumed /\ stack = <<>>)
  /\ [][SinglePass]_vars
  /\ (phase = "run") ~> Ended

\* A completed run that read the entry file, the library root file, a module
\* file and the file of a module nested in it, each to its end.
C17_Witness ==
  /\ phase = "done"
  /\ AllConsumed
  /\ \E path \in ModFiles : \E sub \in ModFiles :
       /\ fs[path].exists /\ fs[sub].exists
       /\ Len(sub) > Len(path)
       /\ Len(fs[sub].lines) >= 1

=============================================================================
